---- MODULE Spec2Model ----
(***************************************************************************)
(* A model of app.py: the upload store, the filter / series pipeline of    *)
(* generate_chart, the Project store behind save/list/load_project, and    *)
(* the export store behind save_png.  Every request handler is one action  *)
(* that runs to completion and leaves its response in `resp`.              *)
(*                                                                         *)
(* Text is a sequence of one-character strings, so that substring search,  *)
(* number parsing and rendering are computed and not assumed.              *)
(***************************************************************************)
EXTENDS Integers, Sequences, FiniteSets, TLC

VARIABLES users, session, projects, uploads, exports, now, resp

vars == <<users, session, projects, uploads, exports, now, resp>>

(***************************************************************************)
(* Bounds of the model.                                                    *)
(***************************************************************************)
MaxRows == 2
MaxProjects == 2
MaxUrlLen == 6

(***************************************************************************)
(* Scalars: Python / JSON / pandas values, tagged so that values of        *)
(* different types can be compared.                                        *)
(***************************************************************************)
None == [t |-> "none", n |-> 0, s |-> <<>>]
NaN == [t |-> "nan", n |-> 0, s |-> <<>>]
IntV(n) == [t |-> "int", n |-> n, s |-> <<>>]
FloatV(n) == [t |-> "float", n |-> n, s |-> <<>>]
StrV(s) == [t |-> "str", n |-> 0, s |-> s]

Digits == <<"0", "1", "2", "3", "4", "5", "6", "7", "8", "9">>

IsDigit(c) == \E i \in 1..10 : Digits[i] = c

DigitVal(c) == (CHOOSE i \in 1..10 : Digits[i] = c) - 1

\* The text is a decimal integer literal (the only numerals of the model).
IsNumeral(s) == Len(s) > 0 /\ \A i \in 1..Len(s) : IsDigit(s[i])

RECURSIVE ParseNum(_)
ParseNum(s) ==
    IF s = <<>> THEN 0
    ELSE ParseNum(SubSeq(s, 1, Len(s) - 1)) * 10 + DigitVal(s[Len(s)])

RECURSIVE NumToText(_)
NumToText(n) ==
    IF n < 10 THEN <<Digits[n + 1]>>
    ELSE NumToText(n \div 10) \o <<Digits[(n % 10) + 1]>>

\* str.lower() / re.IGNORECASE folding on the letters of the model.
Lower(c) ==
    CASE c = "C" -> "c"
      [] c = "A" -> "a"
      [] c = "X" -> "x"
      [] OTHER -> c

(***************************************************************************)
(* Table Loader: read_table.  A stored file is either unreadable or a grid *)
(* of raw text cells; pandas infers one dtype per column.                  *)
(***************************************************************************)
Corrupt == [readable |-> FALSE, columns |-> <<>>, rows |-> <<>>]

Grid(cols, rows) == [readable |-> TRUE, columns |-> cols, rows |-> rows]

ColumnCells(content, c) == {content.rows[r][c] : r \in 1..Len(content.rows)}

\* dtype inference of pd.read_csv / pd.read_excel for one column.
InferDtype(content, c) ==
    LET cells == ColumnCells(content, c)
    IN  IF cells = {} THEN "object"
        ELSE IF \A x \in cells : IsNumeral(x) THEN "int64"
        ELSE IF \A x \in cells : x = <<>> \/ IsNumeral(x) THEN "float64"
        ELSE "object"

ParseCell(dtype, x) ==
    IF x = <<>> THEN NaN
    ELSE IF dtype = "int64" THEN IntV(ParseNum(x))
    ELSE IF dtype = "float64" THEN FloatV(ParseNum(x))
    ELSE StrV(x)

\* The DataFrame: the columns, and the rows with their original index.
read_table(content) ==
    [columns |-> content.columns,
     rows |-> [r \in 1..Len(content.rows) |->
                 [idx |-> r,
                  cells |-> [c \in 1..Len(content.columns) |->
                               ParseCell(InferDtype(content, c), content.rows[r][c])]]]]

HasColumn(df, col) == \E c \in 1..Len(df.columns) : df.columns[c] = col

ColIndex(df, col) == CHOOSE c \in 1..Len(df.columns) : df.columns[c] = col

Cell(df, row, col) == row.cells[ColIndex(df, col)]

(***************************************************************************)
(* Conversions of pandas / Python.                                         *)
(***************************************************************************)
\* Series.astype(float) on one value, and float(x) on a JSON scalar:
\* text converts only when it is a numeral.
CanFloat(v) ==
    \/ v.t \in {"int", "float", "nan"}
    \/ v.t = "str" /\ IsNumeral(v.s)

AsFloat(v) ==
    CASE v.t = "int" -> FloatV(v.n)
      [] v.t = "str" -> FloatV(ParseNum(v.s))
      [] OTHER -> v

\* Series.astype(str) on one value.
AsStr(v) ==
    CASE v.t = "int" -> NumToText(v.n)
      [] v.t = "float" -> NumToText(v.n) \o <<".", "0">>
      [] v.t = "nan" -> <<"n", "a", "n">>
      [] OTHER -> v.s

\* a >= b and a <= b on floats: every comparison with NaN is False.
FloatGe(a, b) == a.t = "float" /\ b.t = "float" /\ a.n >= b.n

FloatLe(a, b) == a.t = "float" /\ b.t = "float" /\ a.n <= b.n

(***************************************************************************)
(* Filter Engine (generate_chart, the try block).                          *)
(***************************************************************************)
Ok(df) == [ok |-> TRUE, df |-> df]

Fail(df) == [ok |-> FALSE, df |-> df]

\* df[mask]: the rows at the positions where the boolean mask holds, in
\* order, each with the index it had.
KeepRows(df, mask) ==
    [df EXCEPT !.rows =
        SelectSeq(df.rows,
                  LAMBDA row : mask[CHOOSE i \in 1..Len(df.rows) : df.rows[i].idx = row.idx])]

\* The mask of a comparison of the column, converted, with a bound.
GeMask(df, col, mn) ==
    [i \in 1..Len(df.rows) |-> FloatGe(AsFloat(Cell(df, df.rows[i], col)), AsFloat(mn))]

LeMask(df, col, mx) ==
    [i \in 1..Len(df.rows) |-> FloatLe(AsFloat(Cell(df, df.rows[i], col)), AsFloat(mx))]

\* df = df[df[col].astype(float) >= float(mn)]: the whole column of the
\* table as it is now is converted, then the bound.
RangeMin(df, col, mn) ==
    IF mn = None THEN Ok(df)
    ELSE IF \E i \in 1..Len(df.rows) : ~CanFloat(Cell(df, df.rows[i], col)) THEN Fail(df)
    ELSE IF ~CanFloat(mn) \/ mn.t = "nan" THEN Fail(df)
    ELSE Ok(KeepRows(df, GeMask(df, col, mn)))

RangeMax(df, col, mx) ==
    IF mx = None THEN Ok(df)
    ELSE IF \E i \in 1..Len(df.rows) : ~CanFloat(Cell(df, df.rows[i], col)) THEN Fail(df)
    ELSE IF ~CanFloat(mx) \/ mx.t = "nan" THEN Fail(df)
    ELSE Ok(KeepRows(df, LeMask(df, col, mx)))

RangeFilter(df, col, fconf) ==
    LET a == RangeMin(df, col, fconf.min)
    IN  IF ~a.ok THEN a ELSE RangeMax(a.df, col, fconf.max)

\* re.compile(pat, re.IGNORECASE) on the patterns of the model: letters
\* and digits are literals, "." is the wildcard, and "(" opens a group
\* that nothing closes, which is an error.
RegexCompiles(pat) == \A j \in 1..Len(pat) : pat[j] # "("

\* pat.search(s) is not None.
RegexSearch(pat, s) ==
    \E i \in 0..(Len(s) - Len(pat)) :
        \A j \in 1..Len(pat) : pat[j] = "." \/ Lower(pat[j]) = Lower(s[i + j])

\* df[col].astype(str).str.contains(txt, case=False, na=False)
ContainsMask(df, col, pat) ==
    [i \in 1..Len(df.rows) |-> RegexSearch(pat, AsStr(Cell(df, df.rows[i], col)))]

\* df = df[df[col].astype(str).str.contains(txt, case=False, na=False)]
TextFilter(df, col, fconf) ==
    IF fconf.text = None \/ fconf.text.s = <<>> THEN Ok(df)
    ELSE IF ~RegexCompiles(fconf.text.s) THEN Fail(df)
    ELSE Ok(KeepRows(df, ContainsMask(df, col, fconf.text.s)))

\* One iteration of the loop over filters.items().
ApplyOne(df, col, fconf) ==
    IF ~HasColumn(df, col) THEN Ok(df)
    ELSE IF fconf.type = "range" THEN RangeFilter(df, col, fconf)
    ELSE IF fconf.type = "text" THEN TextFilter(df, col, fconf)
    ELSE Ok(df)

\* The loop: the predicates in the order given, stopping at the first
\* exception.
RECURSIVE ApplyFilters(_, _)
ApplyFilters(df, filters) ==
    IF filters = <<>> THEN Ok(df)
    ELSE LET r == ApplyOne(df, filters[1].col, filters[1].fconf)
         IN  IF ~r.ok THEN r ELSE ApplyFilters(r.df, Tail(filters))

(***************************************************************************)
(* Series Extractor (generate_chart, "Prepare arrays").                    *)
(***************************************************************************)
XVals(df, xcol) == [i \in 1..Len(df.rows) |-> AsStr(Cell(df, df.rows[i], xcol))]

YVals(df, ycol) == [i \in 1..Len(df.rows) |-> Cell(df, df.rows[i], ycol)]

(***************************************************************************)
(* Responses.  status 500 is the framework's answer to an exception that   *)
(* leaves the handler: the handler itself maps nothing.                    *)
(***************************************************************************)
ErrorResponse(status, msg) == [status |-> status, error |-> msg]

Unhandled(exc) == [status |-> 500, error |-> exc]

NoSession == 0

NoResp == [op |-> "none", req |-> None, res |-> ErrorResponse(0, "")]

\* os.path.exists(os.path.join(UPLOAD_FOLDER, filename)): an uploaded file,
\* or a name that leaves the folder or names the folder itself.
Dot == <<".">>
AppPy == <<"..", "/", "app", ".", "py">>

PathExists(files, filename) ==
    \/ filename \in DOMAIN files
    \/ filename \in {Dot, AppPy}

\* chart_arrays with the two columns exchanged.
chart_arrays_swapped(df, xcol, ycol) ==
    IF ~HasColumn(df, xcol) \/ ~HasColumn(df, ycol) THEN Unhandled("KeyError")
    ELSE [status |-> 200, error |-> "",
          x |-> XVals(df, ycol),
          y |-> YVals(df, xcol),
          rows |-> Len(df.rows)]

\* The arrays of the filtered table, or the exception of df[xcol] / df[ycol].
chart_arrays(df, xcol, ycol) ==
    IF ~HasColumn(df, xcol) \/ ~HasColumn(df, ycol) THEN Unhandled("KeyError")
    ELSE [status |-> 200, error |-> "",
          x |-> XVals(df, xcol),
          y |-> YVals(df, ycol),
          rows |-> Len(df.rows)]

chart_of(f, xcol, ycol) ==
    IF ~f.ok THEN ErrorResponse(400, "filtering error")
    ELSE chart_arrays(f.df, xcol, ycol)

generate_chart(files, req) ==
    IF req.file = None \/ req.xcol = "" \/ req.ycol = ""
    THEN ErrorResponse(400, "file,xcol,ycol required")
    ELSE IF ~PathExists(files, req.file.s) THEN ErrorResponse(404, "file not found")
    ELSE IF req.file.s \notin DOMAIN files \/ ~files[req.file.s].readable
    THEN Unhandled("read_table")
    ELSE CHOOSE r \in {chart_of(f, req.xcol, req.ycol) :
                         f \in {ApplyFilters(df, req.filters) :
                                 df \in {read_table(files[req.file.s])}}} : TRUE

(***************************************************************************)
(* The inputs of the model.                                                *)
(***************************************************************************)
Columns == <<"A", "B">>

ACells == {<<"1">>, <<"5">>, <<"x">>, <<>>}

BCells == {<<"C", "a">>, <<"b">>}

RowSet == {<<a, b>> : a \in ACells, b \in BCells}

Tables == {Grid(Columns, rows) : rows \in UNION {[1..k -> RowSet] : k \in 0..MaxRows}}

FileContents == Tables \cup {Corrupt}

RangePreds ==
    {[type |-> "range", min |-> mn, max |-> mx, text |-> None] :
        mn \in {None, IntV(2)}, mx \in {None, IntV(5)}}
    \cup {[type |-> "range", min |-> StrV(<<"x">>), max |-> None, text |-> None]}

TextPreds ==
    {[type |-> "text", min |-> None, max |-> None, text |-> t] :
        t \in {None, StrV(<<>>), StrV(<<"c">>), StrV(<<".">>), StrV(<<"(">>)}}

OtherPreds == {[type |-> "other", min |-> None, max |-> None, text |-> None]}

Preds == RangePreds \cup TextPreds \cup OtherPreds

\* request.json["filters"]: a JSON object, one predicate per column name,
\* iterated in the order the client wrote it.  "Z" is no column of any table.
Entry(col, fconf) == [col |-> col, fconf |-> fconf]

PredsOf(col) == IF col = "Z" THEN OtherPreds \cup {CHOOSE p \in RangePreds : p.min = IntV(2) /\ p.max = None}
                ELSE Preds

FilterEntries == {Entry(col, p) : col \in {"A", "B"}, p \in Preds}
                 \cup {Entry("Z", p) : p \in PredsOf("Z")}

FilterSpecs ==
    {<<>>} \cup {<<e>> : e \in FilterEntries}
    \cup {p \in {<<e1, e2>> : e1 \in FilterEntries, e2 \in FilterEntries} :
             p[1].col # p[2].col}

XCols == {"", "A", "Z"}

YCols == {"B", "Z"}

UploadNames == {<<"t", ".", "csv">>, <<"t", ".", "EXE">>, <<"csv">>, <<>>}

(***************************************************************************)
(* Upload endpoint.                                                        *)
(***************************************************************************)
ALLOWED_EXT == {<<"csv">>, <<"xlsx">>, <<"xls">>}

LowerName(tok) ==
    CASE tok = "CSV" -> "csv"
      [] tok = "EXE" -> "exe"
      [] OTHER -> tok

\* filename.rsplit(".", 1)[-1].lower()
Ext(filename) ==
    LET dots == {i \in 1..Len(filename) : filename[i] = "."}
        from == IF dots = {} THEN 1
                ELSE (CHOOSE i \in dots : \A j \in dots : j <= i) + 1
    IN  [i \in 1..(Len(filename) - from + 1) |-> LowerName(filename[from + i - 1])]

allowed_file(filename) ==
    /\ \E i \in 1..Len(filename) : filename[i] = "."
    /\ Ext(filename) \in ALLOWED_EXT

\* str.strip("._") on a name whose pieces are "." , ".." , "_" or words.
RECURSIVE StripLeft(_)
StripLeft(name) ==
    IF name # <<>> /\ name[1] \in {".", "..", "_"} THEN StripLeft(Tail(name)) ELSE name

RECURSIVE StripRight(_)
StripRight(name) ==
    IF name # <<>> /\ name[Len(name)] \in {".", "..", "_"}
    THEN StripRight(SubSeq(name, 1, Len(name) - 1))
    ELSE name

\* werkzeug's secure_filename: path separators become "_", then dots and
\* underscores are stripped from both ends; the names of the model hold no
\* other character it rewrites.
secure_filename(name) ==
    StripRight(StripLeft([i \in 1..Len(name) |-> IF name[i] = "/" THEN "_" ELSE name[i]]))

\* datetime.utcnow().strftime('%Y%m%d%H%M%S'): the clock counts
\* microseconds, the stamp keeps the seconds.
MicrosPerSecond == 1000000

Stamp(t) == ToString(t \div MicrosPerSecond)

StoredName(t, filename) == secure_filename(<<Stamp(t), "_">> \o filename)

PreviewRows == 8

Put(files, name, content) ==
    [n \in DOMAIN files \cup {name} |-> IF n = name THEN content ELSE files[n]]

\* df.head(8).fillna("").to_dict(orient="records")
Preview(df) ==
    [i \in 1..(IF Len(df.rows) < PreviewRows THEN Len(df.rows) ELSE PreviewRows) |->
        [c \in 1..Len(df.columns) |->
            IF df.rows[i].cells[c] = NaN THEN StrV(<<>>) ELSE df.rows[i].cells[c]]]

upload_response(t, req) ==
    IF ~req.hasFile THEN ErrorResponse(400, "no file provided")
    ELSE IF req.filename = <<>> THEN ErrorResponse(400, "empty filename")
    ELSE IF ~allowed_file(req.filename) THEN ErrorResponse(400, "unsupported file type")
    ELSE IF ~req.content.readable THEN ErrorResponse(400, "unable to read file")
    ELSE [status |-> 200, error |-> "",
          file |-> StoredName(t, req.filename),
          columns |-> read_table(req.content).columns,
          preview |-> Preview(read_table(req.content))]

\* The file is saved before it is read: an unreadable file stays stored.
upload_saves(req) ==
    req.hasFile /\ req.filename # <<>> /\ allowed_file(req.filename)

UploadReq(hasFile, filename, content) ==
    [hasFile |-> hasFile, filename |-> filename, content |-> content]

upload_file(req) ==
    /\ uploads' = IF upload_saves(req)
                  THEN Put(uploads, StoredName(now, req.filename), req.content)
                  ELSE uploads
    /\ resp' = [op |-> "upload", req |-> req, res |-> upload_response(now, req)]
    /\ UNCHANGED <<users, session, projects, exports, now>>

\* A request without a file part, one with a name that is refused, and one
\* with an accepted name and any content.
Upload(contents) ==
    /\ resp = NoResp
    /\ \/ upload_file(UploadReq(FALSE, <<>>, Corrupt))
       \/ \E filename \in {f \in UploadNames : ~allowed_file(f)} :
              upload_file(UploadReq(TRUE, filename, Corrupt))
       \/ \E filename \in {f \in UploadNames : allowed_file(f)}, content \in contents :
              upload_file(UploadReq(TRUE, filename, content))

(***************************************************************************)
(* Chart generation.                                                       *)
(***************************************************************************)
MissingFile == <<"missing", ".", "csv">>

ReqFiles == {None, StrV(MissingFile)} \cup {StrV(n) : n \in DOMAIN uploads}

ChartReq(file, xcol, ycol, filters) ==
    [file |-> file, xcol |-> xcol, ycol |-> ycol, filters |-> filters]

chart(req) ==
    /\ resp' = [op |-> "generate_chart", req |-> req,
                res |-> generate_chart(uploads, req)]
    /\ UNCHANGED <<users, session, projects, uploads, exports, now>>

\* Every filter specification with two columns of the table to plot, and
\* every choice of file and columns without a filter.
GenerateChart ==
    /\ resp = NoResp
    /\ \/ \E n \in DOMAIN uploads, xy \in {<<"A", "B">>, <<"B", "A">>}, fs \in FilterSpecs :
              chart(ChartReq(StrV(n), xy[1], xy[2], fs))
       \/ \E file \in ReqFiles, xcol \in XCols, ycol \in YCols :
              chart(ChartReq(file, xcol, ycol, <<>>))

(***************************************************************************)
(* JSON: json.dumps / json.loads on the config blob.  A JSON value is a    *)
(* null, a number, a string, a list or an object (members in the order     *)
(* written); the serialized text is a sequence of tokens.                  *)
(***************************************************************************)
JNull == [k |-> "null", n |-> 0, s |-> "", items |-> <<>>]
JNum(n) == [k |-> "num", n |-> n, s |-> "", items |-> <<>>]
JStr(s) == [k |-> "str", n |-> 0, s |-> s, items |-> <<>>]
JList(items) == [k |-> "list", n |-> 0, s |-> "", items |-> items]
JObj(members) == [k |-> "obj", n |-> 0, s |-> "", items |-> members]
Member(key, value) == [key |-> key, value |-> value]

Punct(c) == [k |-> "punct", n |-> 0, s |-> c]
NumTok(n) == [k |-> "num", n |-> n, s |-> ""]
StrTok(s) == [k |-> "str", n |-> 0, s |-> s]
NullTok == [k |-> "null", n |-> 0, s |-> ""]

RECURSIVE json_dumps(_)
RECURSIVE DumpItems(_, _)
\* The elements of a list, or the "key": value members of an object,
\* separated by commas.
DumpItems(kind, items) ==
    IF items = <<>> THEN <<>>
    ELSE (IF kind = "obj"
          THEN <<StrTok(items[1].key), Punct(":")>> \o json_dumps(items[1].value)
          ELSE json_dumps(items[1]))
         \o (IF Len(items) > 1 THEN <<Punct(",")>> ELSE <<>>)
         \o DumpItems(kind, Tail(items))

json_dumps(v) ==
    CASE v.k = "null" -> <<NullTok>>
      [] v.k = "num" -> <<NumTok(v.n)>>
      [] v.k = "str" -> <<StrTok(v.s)>>
      [] v.k = "list" -> <<Punct("[")>> \o DumpItems("list", v.items) \o <<Punct("]")>>
      [] OTHER -> <<Punct("{")>> \o DumpItems("obj", v.items) \o <<Punct("}")>>

\* The parser: each step returns the value read and the tokens left.
Parsed(v, rest) == [v |-> v, rest |-> rest]

RECURSIVE ParseValue(_)
RECURSIVE ParseElements(_, _)
RECURSIVE ParseMembers(_, _)
ParseElements(toks, acc) ==
    IF toks[1] = Punct("]") THEN Parsed(JList(acc), Tail(toks))
    ELSE LET e == ParseValue(IF toks[1] = Punct(",") THEN Tail(toks) ELSE toks)
         IN  ParseElements(e.rest, Append(acc, e.v))

ParseMembers(toks, acc) ==
    IF toks[1] = Punct("}") THEN Parsed(JObj(acc), Tail(toks))
    ELSE LET t == IF toks[1] = Punct(",") THEN Tail(toks) ELSE toks
             e == ParseValue(Tail(Tail(t)))
         IN  ParseMembers(e.rest, Append(acc, Member(t[1].s, e.v)))

ParseValue(toks) ==
    CASE toks[1].k = "null" -> Parsed(JNull, Tail(toks))
      [] toks[1].k = "num" -> Parsed(JNum(toks[1].n), Tail(toks))
      [] toks[1].k = "str" -> Parsed(JStr(toks[1].s), Tail(toks))
      [] toks[1] = Punct("[") -> ParseElements(Tail(toks), <<>>)
      [] OTHER -> ParseMembers(Tail(toks), <<>>)

json_loads(text) == ParseValue(text).v

(***************************************************************************)
(* Auth.  A user row is (id, username, password_hash); the session is the  *)
(* client's cookie, holding a user id or nothing.                          *)
(***************************************************************************)
Usernames == {"alice", "bob"}

Passwords == {"pw"}

WrongPassword == "guess"

generate_password_hash(password) == <<"pbkdf2", password>>

check_password_hash(hash, password) == hash = generate_password_hash(password)

\* User.query.filter_by(username=username).first()
FindUser(username) == {i \in 1..Len(users) : users[i].username = username}

Answer(op, req, res) == [op |-> op, req |-> req, res |-> res]

Credentials(username, password) == [username |-> username, password |-> password]

OkUser(username) == [status |-> 200, error |-> "", username |-> username]

register(req) ==
    IF req.username = None \/ req.password = None
    THEN /\ resp' = Answer("register", req, ErrorResponse(400, "username and password required"))
         /\ UNCHANGED <<users, session>>
    ELSE IF FindUser(req.username.s) # {}
    THEN /\ resp' = Answer("register", req, ErrorResponse(400, "username exists"))
         /\ UNCHANGED <<users, session>>
    ELSE /\ users' = Append(users, [id |-> Len(users) + 1,
                                    username |-> req.username.s,
                                    password_hash |-> generate_password_hash(req.password.s)])
         /\ session' = Len(users) + 1
         /\ resp' = Answer("register", req, OkUser(req.username.s))

Register ==
    /\ resp = NoResp
    /\ \E username \in {None} \cup {StrV(u) : u \in Usernames},
          password \in {None} \cup {StrV(pw) : pw \in Passwords} :
          register(Credentials(username, password))
    /\ UNCHANGED <<projects, uploads, exports, now>>

login(req) ==
    IF req.username = None \/ req.password = None
    THEN /\ resp' = Answer("login", req, ErrorResponse(400, "username and password required"))
         /\ UNCHANGED session
    ELSE IF \/ FindUser(req.username.s) = {}
            \/ \E i \in FindUser(req.username.s) :
                  ~check_password_hash(users[i].password_hash, req.password.s)
    THEN /\ resp' = Answer("login", req, ErrorResponse(400, "invalid credentials"))
         /\ UNCHANGED session
    ELSE /\ session' = users[CHOOSE i \in FindUser(req.username.s) : TRUE].id
         /\ resp' = Answer("login", req, OkUser(req.username.s))

Login ==
    /\ resp = NoResp
    /\ \E username \in {None} \cup {StrV(u) : u \in Usernames},
          password \in {None} \cup {StrV(pw) : pw \in Passwords \cup {WrongPassword}} :
          login(Credentials(username, password))
    /\ UNCHANGED <<users, projects, uploads, exports, now>>

Logout ==
    /\ resp = NoResp
    /\ session' = NoSession
    /\ resp' = Answer("logout", None, [status |-> 200, error |-> ""])
    /\ UNCHANGED <<users, projects, uploads, exports, now>>

(***************************************************************************)
(* Project store.                                                          *)
(***************************************************************************)
EmptyConfig == JObj(<<>>)

ChartConfig ==
    JObj(<<Member("type", JStr("bar")),
           Member("cols", JList(<<JStr("A"), JStr("B")>>)),
           Member("filters", JObj(<<Member("A", JObj(<<Member("min", JNum(2)),
                                                       Member("max", JNull)>>))>>))>>)

Configs == {EmptyConfig, ChartConfig}

SaveReq(name, file, config) == [name |-> name, file |-> file, config |-> config]

\* data.get("name", "Untitled")
NameOf(req) == IF req.name = None THEN "Untitled" ELSE req.name.s

\* ConfigOf reading a key the client never sends.
ConfigOfWrongKey(req) == EmptyConfig

\* data.get("config", {})
ConfigOf(req) == IF req.config = None THEN EmptyConfig ELSE req.config

\* Project(owner_id=session["user_id"], name=name, file_path=filename,
\*         config_json=json.dumps(config)), created_at by default utcnow.
NewProject(req) ==
    [id |-> Len(projects) + 1,
     owner_id |-> session,
     name |-> NameOf(req),
     file_path |-> req.file.s,
     config_json |-> json_dumps(ConfigOf(req)),
     created_at |-> now]

save_project_error(req) ==
    IF session = NoSession THEN ErrorResponse(401, "authentication required")
    ELSE IF req.file = None \/ req.file.s = <<>> THEN ErrorResponse(400, "file required")
    ELSE IF ~PathExists(uploads, req.file.s) THEN ErrorResponse(404, "file not found")
    ELSE ErrorResponse(200, "")

\* The commit takes time: the clock has moved on when the next request
\* reads it.
save_project(req) ==
    IF save_project_error(req).status # 200
    THEN /\ resp' = Answer("save_project", req, save_project_error(req))
         /\ UNCHANGED <<projects, now>>
    ELSE /\ Len(projects) < MaxProjects
         /\ projects' = Append(projects, NewProject(req))
         /\ now' = now + 1
         /\ resp' = Answer("save_project", req,
                           [status |-> 200, error |-> "", project_id |-> Len(projects) + 1])

SaveFiles == {None, StrV(MissingFile), StrV(AppPy)} \cup {StrV(n) : n \in DOMAIN uploads}

SaveProject ==
    /\ resp = NoResp
    /\ \/ \E file \in SaveFiles, config \in Configs :
             save_project(SaveReq(StrV("p"), file, config))
       \/ \E file \in SaveFiles : save_project(SaveReq(None, file, None))
    /\ UNCHANGED <<users, session, uploads, exports>>

\* InsertDesc without the comparison: the rows stay in insertion order.
InsertUnordered(p, sorted) == <<p>> \o sorted

\* Insertion of p into a sequence kept in descending created_at order.
RECURSIVE InsertDesc(_, _)
InsertDesc(p, sorted) ==
    IF sorted = <<>> THEN <<p>>
    ELSE IF p.created_at > sorted[1].created_at THEN <<p>> \o sorted
    ELSE <<sorted[1]>> \o InsertDesc(p, Tail(sorted))

RECURSIVE OrderByCreatedDesc(_)
OrderByCreatedDesc(rows) ==
    IF rows = <<>> THEN <<>>
    ELSE InsertDesc(rows[1], OrderByCreatedDesc(Tail(rows)))

\* Project.query.filter_by(owner_id=...).order_by(Project.created_at.desc()).all()
ProjectsOf(owner) ==
    OrderByCreatedDesc(SelectSeq(projects, LAMBDA p : p.owner_id = owner))

Summary(p) == [id |-> p.id, name |-> p.name, file |-> p.file_path, created_at |-> p.created_at]

list_projects(owner) ==
    IF owner = NoSession THEN ErrorResponse(401, "authentication required")
    ELSE [status |-> 200, error |-> "",
          projects |-> [i \in 1..Len(ProjectsOf(owner)) |-> Summary(ProjectsOf(owner)[i])]]

ListProjects ==
    /\ resp = NoResp
    /\ resp' = Answer("list_projects", None, list_projects(session))
    /\ UNCHANGED <<users, session, projects, uploads, exports, now>>

\* Project.query.get(proj_id): the row with that primary key, if any.
GetProject(proj_id) == {i \in 1..Len(projects) : projects[i].id = proj_id}

\* load_project telling "not yours" apart from "not found".
load_project_leaky(owner, proj_id) ==
    IF owner = NoSession THEN ErrorResponse(401, "authentication required")
    ELSE IF GetProject(proj_id) = {} THEN ErrorResponse(404, "project not found")
    ELSE IF \E i \in GetProject(proj_id) : projects[i].owner_id # owner
    THEN ErrorResponse(403, "access denied")
    ELSE LET p == projects[CHOOSE i \in GetProject(proj_id) : TRUE]
         IN  [status |-> 200, error |-> "",
              id |-> p.id,
              name |-> p.name,
              file |-> p.file_path,
              config |-> json_loads(p.config_json),
              created_at |-> p.created_at]

load_project(owner, proj_id) ==
    IF owner = NoSession THEN ErrorResponse(401, "authentication required")
    ELSE IF \/ GetProject(proj_id) = {}
            \/ \E i \in GetProject(proj_id) : projects[i].owner_id # owner
    THEN ErrorResponse(404, "project not found or access denied")
    ELSE LET p == projects[CHOOSE i \in GetProject(proj_id) : TRUE]
         IN  [status |-> 200, error |-> "",
              id |-> p.id,
              name |-> p.name,
              file |-> p.file_path,
              config |-> json_loads(p.config_json),
              created_at |-> p.created_at]

LoadProject ==
    /\ resp = NoResp
    /\ \E proj_id \in 0..(Len(projects) + 1) :
          resp' = Answer("load_project", [id |-> proj_id], load_project(session, proj_id))
    /\ UNCHANGED <<users, session, projects, uploads, exports, now>>

(***************************************************************************)
(* Export store: save_png.                                                 *)
(***************************************************************************)
UrlChars == {"Q", "=", "!", ","}

DataUrls == UNION {[1..k -> UrlChars] : k \in 1..MaxUrlLen}

PngNames == {None, StrV(<<"a", ".", "png">>), StrV(<<"..", "/", "a", ".", "png">>)}

HasComma(url) == \E i \in 1..Len(url) : url[i] = ","

FirstComma(url) == CHOOSE i \in 1..Len(url) : url[i] = "," /\ \A j \in 1..(i - 1) : url[j] # ","

\* dataurl.split(",", 1)[1]
Payload(url) == SubSeq(url, FirstComma(url) + 1, Len(url))

\* binascii's table_a2b_base64 on the characters of the model: "Q" is a
\* character of the base64 alphabet, "!" and "," are not.
InAlphabet(c) == c = "Q"

B64Value(c) == 16

\* base64.b64decode(b64) = binascii.a2b_base64(b64), not strict: characters
\* outside the alphabet are skipped, a complete pad sequence ends the input,
\* and data that stops inside a quad is an error.
RECURSIVE a2b_base64(_, _, _, _, _)
a2b_base64(data, quad_pos, leftchar, pads, out) ==
    IF data = <<>> THEN [ok |-> quad_pos = 0, raw |-> out]
    ELSE IF data[1] = "="
    THEN IF quad_pos >= 2 /\ quad_pos + pads + 1 >= 4
         THEN [ok |-> TRUE, raw |-> out]
         ELSE a2b_base64(Tail(data), quad_pos, leftchar,
                         IF quad_pos >= 2 THEN pads + 1 ELSE pads, out)
    ELSE IF ~InAlphabet(data[1])
    THEN a2b_base64(Tail(data), quad_pos, leftchar, pads, out)
    ELSE LET v == B64Value(data[1])
         IN  CASE quad_pos = 0 -> a2b_base64(Tail(data), 1, v, 0, out)
               [] quad_pos = 1 ->
                    a2b_base64(Tail(data), 2, v % 16, 0,
                               Append(out, (leftchar * 4 + v \div 16) % 256))
               [] quad_pos = 2 ->
                    a2b_base64(Tail(data), 3, v % 4, 0,
                               Append(out, (leftchar * 16 + v \div 4) % 256))
               [] OTHER ->
                    a2b_base64(Tail(data), 0, 0, 0,
                               Append(out, (leftchar * 64 + v) % 256))

b64decode(b64) == a2b_base64(b64, 0, 0, 0, <<>>)

PngReq(name, dataURL) == [name |-> name, dataURL |-> dataURL]

\* data.get("name", f"chart_{datetime.utcnow().strftime('%Y%m%d%H%M%S')}.png")
PngName(req) ==
    IF req.name = None THEN <<"chart", "_", Stamp(now), ".", "png">> ELSE req.name.s

save_png_response(req) ==
    IF req.dataURL = None \/ req.dataURL.s = <<>> THEN ErrorResponse(400, "dataURL required")
    ELSE IF ~HasComma(req.dataURL.s) THEN Unhandled("ValueError")
    ELSE IF ~b64decode(Payload(req.dataURL.s)).ok THEN Unhandled("binascii.Error")
    ELSE [status |-> 200, error |-> "",
          url |-> <<"/", "exports", "/">> \o secure_filename(PngName(req))]

save_png(req) ==
    /\ exports' = IF save_png_response(req).status = 200
                  THEN Put(exports, secure_filename(PngName(req)),
                           b64decode(Payload(req.dataURL.s)).raw)
                  ELSE exports
    /\ resp' = Answer("save_png", req, save_png_response(req))

SavePng ==
    /\ resp = NoResp
    /\ \E name \in PngNames, dataURL \in {None, StrV(<<>>)} \cup {StrV(u) : u \in DataUrls} :
          save_png(PngReq(name, dataURL))
    /\ UNCHANGED <<users, session, projects, uploads, now>>

(***************************************************************************)
(* Construction: empty database, empty folders, no session.                *)
(***************************************************************************)
NoFiles == [n \in {} |-> Corrupt]

Init ==
    /\ users = <<>>
    /\ session = NoSession
    /\ projects = <<>>
    /\ uploads = NoFiles
    /\ exports = NoFiles
    /\ now = 0
    /\ resp = NoResp

\* The response reaches the client; the next request can be made.
Respond ==
    /\ resp # NoResp
    /\ resp' = NoResp
    /\ UNCHANGED <<users, session, projects, uploads, exports, now>>

UploadTable == Upload(FileContents)

NextChart == UploadTable \/ GenerateChart \/ Respond

\* The project store is indifferent to what the uploaded file holds.
StoreContents == {Grid(Columns, <<>>)}

UploadAny == Upload(StoreContents)

NextStore ==
    \/ Register \/ Login \/ Logout \/ UploadAny
    \/ SaveProject \/ ListProjects \/ LoadProject \/ Respond

SpecChart == Init /\ [][NextChart]_vars

SpecStore == Init /\ [][NextStore]_vars

NextExport == SavePng \/ Respond

SpecExport == Init /\ [][NextExport]_vars

\* The whole application.
Next ==
    \/ Register \/ Login \/ Logout \/ UploadTable \/ GenerateChart
    \/ SaveProject \/ ListProjects \/ LoadProject \/ SavePng \/ Respond

Spec == Init /\ [][Next]_vars

(***************************************************************************)
(* Properties.                                                             *)
(***************************************************************************)
UserIds == {users[i].id : i \in 1..Len(users)}

Owns(u, proj_id) ==
    \E i \in 1..Len(projects) : projects[i].id = proj_id /\ projects[i].owner_id = u

\* No project has this id.
UnusedId == Len(projects) + 1

Opaque(res, u) ==
    /\ res.status # 200
    /\ DOMAIN res = {"status", "error"}
    /\ res = load_project(u, UnusedId)

\* C1: load_project in the session of a user who does not own the project
\* never returns the record, and answers a foreign project exactly as it
\* answers an id that no project has.
C1_NonOwnerLoadOpaque ==
    /\ \A u \in UserIds, proj_id \in 0..(Len(projects) + 1) :
          ~Owns(u, proj_id) => Opaque(load_project(u, proj_id), u)
    /\ (resp.op = "load_project" /\ session # NoSession /\ ~Owns(session, resp.req.id))
          => Opaque(resp.res, session)

\* A load of an existing project of another owner has been answered.
C1_Witness ==
    /\ resp.op = "load_project"
    /\ session # NoSession
    /\ \E i \in 1..Len(projects) :
          projects[i].id = resp.req.id /\ projects[i].owner_id # session

IsChart == resp.op = "generate_chart"

\* The request names a stored, readable table and both columns.
ChartOnTable ==
    /\ IsChart
    /\ resp.req.file # None
    /\ resp.req.file.s \in DOMAIN uploads
    /\ uploads[resp.req.file.s].readable
    /\ resp.req.xcol # ""
    /\ resp.req.ycol # ""

ChartTable == read_table(uploads[resp.req.file.s])

Swapped(req) == [req EXCEPT !.filters = <<req.filters[2], req.filters[1]>>]

\* C2: two range or text predicates give the same outcome and the same rows
\* in either order.
C2_FilterOrderCommutes ==
    (/\ ChartOnTable
     /\ Len(resp.req.filters) = 2
     /\ \A i \in 1..2 : resp.req.filters[i].fconf.type \in {"range", "text"})
    => generate_chart(uploads, Swapped(resp.req)) = resp.res

\* A range predicate with a bound, on a column of the table that holds a
\* cell no number can be read from.
RangeOnNonNumeric(e) ==
    /\ e.fconf.type = "range"
    /\ e.fconf.min # None \/ e.fconf.max # None
    /\ HasColumn(ChartTable, e.col)
    /\ \E r \in 1..Len(ChartTable.rows) : ~CanFloat(Cell(ChartTable, ChartTable.rows[r], e.col))

\* C3: a range predicate on a column that holds a non-numeric cell fails
\* the whole request with a filtering error.  (Range predicates without
\* any bound compare nothing and are left out.)
C3_NonNumericFailsRequest ==
    (/\ ChartOnTable
     /\ \E i \in 1..Len(resp.req.filters) : RangeOnNonNumeric(resp.req.filters[i]))
    => resp.res = ErrorResponse(400, "filtering error")

ClientError(res) == res.status \in 400..499

\* C4: a chart request for a column the table does not have is answered
\* with a client error.
C4_AbsentColumnClientError ==
    (/\ ChartOnTable
     /\ ~HasColumn(ChartTable, resp.req.xcol) \/ ~HasColumn(ChartTable, resp.req.ycol))
    => ClientError(resp.res)

\* RFC 4648 text: quads of alphabet characters, the last one padded with
\* at most two "=".
ValidBase64(b64) ==
    /\ Len(b64) % 4 = 0
    /\ \E pad \in 0..2 :
          /\ pad <= Len(b64)
          /\ \A i \in 1..Len(b64) :
                IF i <= Len(b64) - pad THEN InAlphabet(b64[i]) ELSE b64[i] = "="

Malformed(req) ==
    /\ req.dataURL # None
    /\ req.dataURL.s # <<>>
    /\ ~HasComma(req.dataURL.s) \/ ~ValidBase64(Payload(req.dataURL.s))

\* C5: save_png of a data URL without a comma, or with a payload that is
\* not base64, is answered with a client error and writes no file.
C5_MalformedUrlRejected ==
    /\ []((resp.op = "save_png" /\ Malformed(resp.req)) => ClientError(resp.res))
    /\ [][(resp'.op = "save_png" /\ Malformed(resp'.req)) => exports' = exports]_vars

\* C6: every project is owned by a user, was appended by a save_project
\* call of that user's session, and refers to a file of the upload store;
\* a save without a session or for a missing file fails and stores nothing.
C6_ProjectsOwnedAndFiled ==
    /\ [](\A i \in 1..Len(projects) :
             /\ projects[i].owner_id \in UserIds
             /\ projects[i].file_path \in DOMAIN uploads)
    /\ []((resp.op = "save_project" /\ session = NoSession) => resp.res.status = 401)
    /\ []((/\ resp.op = "save_project"
           /\ session # NoSession
           /\ resp.req.file # None
           /\ resp.req.file.s \notin DOMAIN uploads) => resp.res.status = 404)
    /\ [][projects' # projects =>
             /\ resp'.op = "save_project"
             /\ resp'.res.status = 200
             /\ session # NoSession
             /\ Len(projects') = Len(projects) + 1
             /\ SubSeq(projects', 1, Len(projects)) = projects
             /\ projects'[Len(projects')].owner_id = session]_vars

\* s contains sub as a literal substring, letter case ignored.
ContainsIgnoreCase(s, sub) ==
    \E i \in 0..(Len(s) - Len(sub)) :
        \A j \in 1..Len(sub) : Lower(sub[j]) = Lower(s[i + j])

LiteralTextRows(df, col, text) ==
    IF text = None \/ text.s = <<>> THEN df
    ELSE [df EXCEPT !.rows =
            SelectSeq(df.rows,
                      LAMBDA row : ContainsIgnoreCase(AsStr(Cell(df, row, col)), text.s))]

\* C7: a text predicate keeps exactly the rows whose rendered value
\* contains the text literally, case ignored; without text it keeps all.
C7_TextIsLiteralSubstring ==
    (/\ ChartOnTable
     /\ Len(resp.req.filters) = 1
     /\ resp.req.filters[1].fconf.type = "text"
     /\ HasColumn(ChartTable, resp.req.filters[1].col)
     /\ HasColumn(ChartTable, resp.req.xcol)
     /\ HasColumn(ChartTable, resp.req.ycol))
    => resp.res = chart_arrays(LiteralTextRows(ChartTable, resp.req.filters[1].col,
                                               resp.req.filters[1].fconf.text),
                               resp.req.xcol, resp.req.ycol)

\* The rows of the stored table that survive the request's filters.
Surviving == ApplyFilters(ChartTable, resp.req.filters).df.rows

\* C8: a successful chart has x, y and the row count of one length, and
\* element i of each comes from the i-th surviving row of the table, in
\* the table's order: x as text, y as stored.
C8_SeriesParallel ==
    (IsChart /\ resp.res.status = 200) =>
        /\ Len(resp.res.x) = resp.res.rows
        /\ Len(resp.res.y) = resp.res.rows
        /\ resp.res.rows = Len(Surviving)
        /\ \A i \in 1..Len(Surviving) :
              /\ resp.res.x[i] =
                    AsStr(Cell(ChartTable, ChartTable.rows[Surviving[i].idx], resp.req.xcol))
              /\ resp.res.y[i] =
                    Cell(ChartTable, ChartTable.rows[Surviving[i].idx], resp.req.ycol)
              /\ \A j \in 1..(i - 1) : Surviving[j].idx < Surviving[i].idx

\* A chart of a table whose first row the filters dropped and whose second
\* row they kept, the two rows differing in both columns.
C8_Witness ==
    /\ IsChart
    /\ resp.res.status = 200
    /\ resp.res.rows = 1
    /\ Len(ChartTable.rows) = 2
    /\ Surviving[1].idx = 2
    /\ ChartTable.rows[1].cells[1] # ChartTable.rows[2].cells[1]
    /\ ChartTable.rows[1].cells[2] # ChartTable.rows[2].cells[2]

OwnIds(u) == {projects[i].id : i \in {k \in 1..Len(projects) : projects[k].owner_id = u}}

\* The listing holds the owner's projects, each once, as stored, a project
\* saved later (larger id) before one saved earlier.
ListedRight(res, u) ==
    /\ res.status = 200
    /\ {res.projects[i].id : i \in 1..Len(res.projects)} = OwnIds(u)
    /\ Len(res.projects) = Cardinality(OwnIds(u))
    /\ \A i \in 1..Len(res.projects) :
          /\ res.projects[i] = Summary(projects[res.projects[i].id])
          /\ \A j \in 1..(i - 1) : res.projects[j].id > res.projects[i].id

LoadsBack(p) ==
    /\ \E C \in Configs : p.config_json = json_dumps(C)
    /\ \A C \in Configs :
          p.config_json = json_dumps(C) =>
              /\ load_project(p.owner_id, p.id).status = 200
              /\ load_project(p.owner_id, p.id).config = C

C10_State ==
    /\ \A i \in 1..Len(projects) : LoadsBack(projects[i])
    /\ (resp.op = "save_project" /\ resp.res.status = 200 /\ resp.req.config # None) =>
          load_project(session, resp.res.project_id).config = resp.req.config
    /\ (resp.op = "load_project" /\ resp.res.status = 200) =>
          \A C \in Configs :
              projects[resp.req.id].config_json = json_dumps(C) => resp.res.config = C

\* C10: the owner who saved config C loads C back, whatever was saved,
\* listed or loaded in between, and no step changes or removes a stored
\* project.
C10_RoundTrip ==
    /\ []C10_State
    /\ [][/\ Len(projects') >= Len(projects)
          /\ SubSeq(projects', 1, Len(projects)) = projects]_vars

\* The first of two projects, saved with the chart config, loaded back
\* after the second save.
C10_Witness ==
    /\ resp.op = "load_project"
    /\ resp.res.status = 200
    /\ resp.req.id = 1
    /\ Len(projects) = 2
    /\ resp.res.config = ChartConfig

====
